---- MODULE Spec2Model ----
(***************************************************************************)
(* The browser-side agent of browser-control-mcp (the Firefox extension's  *)
(* background script) as a state machine: configuration loading, one       *)
(* reconnecting WebSocket client per port, the signed-frame listener, the  *)
(* command dispatcher and the asynchronous browser primitives it starts.   *)
(***************************************************************************)
EXTENDS Integers, Sequences, FiniteSets, TLC

\* ------------------------------------------------------------------ bounds
MaxCmds == 1       \* handlers started in one run, any command
MaxPair == 2       \* handlers started in one run, concurrent commands
MaxSockets == 2    \* WebSocket objects one client creates in one run
MaxDoc == 5        \* characters of the longest document
MaxReads == 3      \* get-tab-content commands in one run
MaxCalls == 3      \* calls the front-end issues in one run
MaxDownloads == 2  \* entries of one bulk-download call
MaxTabs == 4       \* tabs of the longest tab list
\* The most tabs get-list-of-open-tabs returns, 500 in the source, scaled to
\* the tab lists of the model.
MaxLimit == 2
\* The window of sendTabsContent, 50_000 characters in the source, scaled to
\* the documents of the model.
MAX_CONTENT_LENGTH == 2

\* --------------------------------------------------------------- constants
WS_PORTS == <<8081, 8082>>
Ports == {WS_PORTS[n] : n \in 1..Len(WS_PORTS)}

\* Strings the code inspects are sequences of characters.
HttpsPrefix == <<"h", "t", "t", "p", "s", ":", "/", "/">>
UrlHttps == HttpsPrefix \o <<"a">>
UrlHttp == <<"h", "t", "t", "p", ":", "/", "/", "a">>
UrlShort == <<"h", "t", "t", "p", "s", ":">>
Urls == {UrlHttps, UrlHttp, UrlShort}

\* String.prototype.startsWith
StartsWith(s, prefix) ==
  /\ Len(s) >= Len(prefix)
  /\ SubSeq(s, 1, Len(prefix)) = prefix

\* The server listens on the first port; nothing listens on the other.
Listening == {WS_PORTS[1]}

\* config.secret: absent, the empty string, the server's key or another key.
NoSecret == "<undefined>"
ServerSecret == "k1"
ConfigSecrets == {NoSecret, "", ServerSecret, "k2"}

\* ---------------------------------------------------------------- payloads
\* A ServerMessageRequest as parsed from the wire. type is the JavaScript
\* type of the payload value: an object, null, or undefined (no payload key).
\* Correlation ids are numbered 1, 2, ...; 0 stands for no id.
\* A number of the wire, or undefined for an optional field left out.
Number(n) == [type |-> "number", value |-> n]
Undefined == [type |-> "undefined", value |-> 0]

Request(cmd, correlationId) ==
  [type |-> "object", cmd |-> cmd, correlationId |-> correlationId,
   url |-> <<>>, tabIds |-> <<>>, tabId |-> 0, tabOrder |-> <<>>,
   offset |-> Undefined]

UndefinedPayload == [Request("", 0) EXCEPT !.type = "undefined"]
NullPayload == [Request("", 0) EXCEPT !.type = "null"]

OpenTab(c, url) == [Request("open-tab", c) EXCEPT !.url = url]
CloseTabs(c) == [Request("close-tabs", c) EXCEPT !.tabIds = <<1, 2>>]
GetTabList(c) == Request("get-tab-list", c)
GetHistory(c) == Request("get-browser-recent-history", c)
GetTabContent(c) == [Request("get-tab-content", c) EXCEPT !.tabId = 1]
GetTabContentAt(c, offset) == [GetTabContent(c) EXCEPT !.offset = offset]
ReorderTabs(c) == [Request("reorder-tabs", c) EXCEPT !.tabOrder = <<2, 1>>]
FindHighlight(c) == [Request("find-highlight", c) EXCEPT !.tabId = 1]
GroupTabs(c) == [Request("group-tabs", c) EXCEPT !.tabIds = <<1, 2>>]
\* A kind outside the vocabulary (schema mismatch between the peers).
Screenshot(c) == Request("capture-screenshot", c)

\* ------------------------------------------------------------------ codec
\* JSON.stringify of a payload: the canonical text of the value (one text
\* per value), or undefined for undefined, which is not a string.
JSONstringify(value) ==
  [defined |-> value.type # "undefined", text |-> value]

\* getMessageSignature: a deterministic keyed MAC, hex encoded: one digest
\* per (message, key), never the empty string.
getMessageSignature(message, secretKey) ==
  <<[msg |-> message, key |-> secretKey]>>

\* A wire frame. data: "garbage" is not JSON, "null" is the JSON value
\* null, "object" is { payload?, signature? }.
Frame(data, payload, hasSignature, signature) ==
  [data |-> data, payload |-> payload,
   hasSignature |-> hasSignature, signature |-> signature]

GarbageFrame == Frame("garbage", UndefinedPayload, FALSE, <<>>)
NullFrame == Frame("null", UndefinedPayload, FALSE, <<>>)
\* What a peer holding secretKey sends for payload.
Signed(payload, secretKey) ==
  Frame("object", payload, TRUE,
        getMessageSignature(JSONstringify(payload), secretKey))

\* ------------------------------------------------------------------- page
\* A page of L characters, each character its own position, so that two
\* slices are equal only when they are the same range. Its anchors: one the
\* link filter keeps, one with no text, one that is not https, one with a
\* fragment.
Page(L) ==
  [innerText |-> [i \in 1..L |-> i],
   anchors |-> <<[url |-> UrlHttps, text |-> "a"],
                 [url |-> UrlHttps, text |-> ""],
                 [url |-> UrlHttp, text |-> "b"],
                 [url |-> UrlHttps \o <<"#">>, text |-> "c"]>>]

Pages == {Page(L) : L \in 0..MaxDoc}

\* Clamping that counts a negative index from the end, as slice does.
Clamp_FromEnd(n, len) ==
  IF n < 0 THEN (IF len + n < 0 THEN 0 ELSE len + n)
  ELSE IF n > len THEN len ELSE n

\* String.prototype.substring(start, end): both clamped to [0, length],
\* swapped when start is the greater.
Clamp(n, len) == IF n < 0 THEN 0 ELSE IF n > len THEN len ELSE n

\* substring taking the character before start as well.
substring_FromPrevious(str, start, end) ==
  LET a == Clamp(start, Len(str))
      b == Clamp(end, Len(str))
  IN IF a <= b THEN SubSeq(str, IF a = 0 THEN 1 ELSE a, b)
     ELSE SubSeq(str, b + 1, a)

substring(str, start, end) ==
  LET a == Clamp(start, Len(str))
      b == Clamp(end, Len(str))
  IN IF a <= b THEN SubSeq(str, a + 1, b) ELSE SubSeq(str, b + 1, a)

\* String.prototype.includes for one character.
Includes(str, ch) == \E i \in 1..Len(str) : str[i] = ch

\* getLinks of the injected script: the anchors with a text, an https url
\* and no fragment.
getLinks(doc) ==
  SelectSeq(doc.anchors,
            LAMBDA link : /\ link.text # ""
                          /\ StartsWith(link.url, HttpsPrefix)
                          /\ ~Includes(link.url, "#"))

\* offset || 0 as interpolated into the script: undefined and 0 give 0.
OrZero(offset) == IF offset.type = "undefined" THEN 0 ELSE offset.value

\* getTextContent flagging a text that fills the window exactly.
getTextContent_FlagsFullWindow(doc, offset) ==
  LET text == substring(doc.innerText, OrZero(offset), Len(doc.innerText))
  IN IF Len(text) >= MAX_CONTENT_LENGTH
     THEN [text |-> substring(text, 0, MAX_CONTENT_LENGTH),
           isTruncated |-> TRUE]
     ELSE [text |-> text, isTruncated |-> FALSE]

\* getTextContent of the injected script.
getTextContent(doc, offset) ==
  LET text == substring(doc.innerText, OrZero(offset), Len(doc.innerText))
  IN IF Len(text) > MAX_CONTENT_LENGTH
     THEN [text |-> substring(text, 0, MAX_CONTENT_LENGTH),
           isTruncated |-> TRUE]
     ELSE [text |-> text, isTruncated |-> FALSE]

\* What the injected script returns.
InjectedScript(doc, offset) ==
  [links |-> getLinks(doc),
   fullText |-> getTextContent(doc, offset).text,
   isTruncated |-> getTextContent(doc, offset).isTruncated,
   totalLength |-> Len(doc.innerText)]

\* No script result.
NoContent ==
  [links |-> <<>>, fullText |-> <<>>, isTruncated |-> FALSE, totalLength |-> 0]

\* ------------------------------------------------------------------ state
VARIABLES
  boot,         \* getConfig(): "loading", "running", "no-secret", "load-failed"
  secret,       \* config.secret
  sockets,      \* per port: readyState of every WebSocket created, in order
  socket,       \* per port: the client's socket variable (0 is null)
  tasks,        \* the command handlers started, in dispatch order
  sent,         \* the frames transmitted to the server, in order
  createdTabs,  \* the urls of the tabs browser.tabs.create opened
  lastRx,       \* the last frame received and what the listener did with it
  peer,         \* the ports a server is listening on
  document,     \* the page in the tab: document.body.innerText and its links
  gateway,      \* the front-end's calls to the agent and their pending entries
  tool          \* the front-end tool call in progress

vars ==
  <<boot, secret, sockets, socket, tasks, sent, createdTabs, lastRx, peer,
    document, gateway, tool>>

\* No front-end call and no tool call.
NoGateway ==
  [channel |-> "Disconnected", calls |-> <<>>, pending |-> {}, last |-> "none"]
NoTool == [name |-> "none"]

\* data, payload, cmd and sig describe the frame; verdict is how the
\* listener ended; after is the verdict of the frame before it when this one
\* was dispatched and that one was dropped.
NoRx ==
  [data |-> "none", payload |-> "none", cmd |-> "", sig |-> "none",
   verdict |-> "none", after |-> "none"]

Init ==
  /\ boot = "loading"
  /\ secret \in ConfigSecrets
  /\ sockets = [p \in Ports |-> <<>>]
  /\ socket = [p \in Ports |-> 0]
  /\ tasks = <<>>
  /\ sent = <<>>
  /\ createdTabs = <<>>
  /\ lastRx = NoRx
  /\ peer = Listening
  /\ document = Page(MaxDoc)
  /\ gateway = NoGateway
  /\ tool = NoTool

\* -------------------------------------------------------------- transport
\* connectWebSocket: a new WebSocket, CONNECTING, replaces the socket variable.
connectWebSocket(p) ==
  /\ sockets' = [sockets EXCEPT ![p] = Append(@, "CONNECTING")]
  /\ socket' = [socket EXCEPT ![p] = Len(sockets[p]) + 1]

\* WebSocket.close(): starts the closing handshake of a socket that is
\* CONNECTING or OPEN, and does nothing otherwise.
SocketClose(readyState) ==
  IF readyState \in {"CONNECTING", "OPEN"} THEN "CLOSING" ELSE readyState

\* !secret
SecretMissing(s) == s = NoSecret \/ s = ""

\* getConfig().then: without a secret nothing starts; otherwise one client
\* per port, each connecting at once.
ConfigLoaded ==
  /\ boot = "loading"
  /\ IF SecretMissing(secret)
     THEN /\ boot' = "no-secret"
          /\ UNCHANGED <<sockets, socket>>
     ELSE /\ boot' = "running"
          /\ sockets' = [p \in Ports |-> <<"CONNECTING">>]
          /\ socket' = [p \in Ports |-> 1]
  /\ UNCHANGED <<secret, tasks, sent, createdTabs, lastRx, peer, document, gateway,
                 tool>>

\* getConfig() rejects (config.json missing): the catch logs, nothing starts.
ConfigFailed ==
  /\ boot = "loading"
  /\ boot' = "load-failed"
  /\ UNCHANGED <<secret, sockets, socket, tasks, sent, createdTabs, lastRx,
                 peer, document, gateway,
                 tool>>

\* The interval reconnecting whenever the socket is not OPEN.
ReconnectTick_NotOpen(p) ==
  /\ boot = "running"
  /\ socket[p] = 0 \/ sockets[p][socket[p]] # "OPEN"
  /\ Len(sockets[p]) < MaxSockets
  /\ connectWebSocket(p)
  /\ UNCHANGED <<boot, secret, tasks, sent, createdTabs, lastRx, peer,
                 document, gateway, tool>>

\* The interval reconnecting only when there is no socket yet.
ReconnectTick_OnlyNull(p) ==
  /\ boot = "running"
  /\ socket[p] = 0
  /\ Len(sockets[p]) < MaxSockets
  /\ connectWebSocket(p)
  /\ UNCHANGED <<boot, secret, tasks, sent, createdTabs, lastRx, peer,
                 document, gateway,
                 tool>>

\* The 2-second interval: reconnect when there is no socket or it is CLOSED.
ReconnectTick(p) ==
  /\ boot = "running"
  /\ socket[p] = 0 \/ sockets[p][socket[p]] = "CLOSED"
  /\ Len(sockets[p]) < MaxSockets
  /\ connectWebSocket(p)
  /\ UNCHANGED <<boot, secret, tasks, sent, createdTabs, lastRx, peer,
                 document, gateway,
                 tool>>

\* The "open" event: the handshake with the server succeeded.
SocketOpened(p, s) ==
  /\ s \in 1..Len(sockets[p])
  /\ sockets[p][s] = "CONNECTING"
  /\ sockets' = [sockets EXCEPT ![p][s] = "OPEN"]
  /\ UNCHANGED <<boot, secret, socket, tasks, sent, createdTabs, lastRx, peer,
                 document, gateway,
                 tool>>

\* The connection fails: the browser sets the socket CLOSED and fires
\* "error", whose listener closes the client's current socket.
SocketFailed(p, s) ==
  /\ s \in 1..Len(sockets[p])
  /\ sockets[p][s] \in {"CONNECTING", "OPEN", "CLOSING"}
  /\ LET closed == [sockets[p] EXCEPT ![s] = "CLOSED"]
     IN sockets' = [sockets EXCEPT ![p] =
          IF socket[p] = 0 THEN closed
          ELSE [closed EXCEPT ![socket[p]] = SocketClose(@)]]
  /\ UNCHANGED <<boot, secret, socket, tasks, sent, createdTabs, lastRx, peer,
                 document, gateway,
                 tool>>

\* The server closes an open connection cleanly: "close" only, no listener.
SocketClosed(p, s) ==
  /\ s \in 1..Len(sockets[p])
  /\ sockets[p][s] \in {"OPEN", "CLOSING"}
  /\ sockets' = [sockets EXCEPT ![p][s] = "CLOSED"]
  /\ UNCHANGED <<boot, secret, socket, tasks, sent, createdTabs, lastRx, peer,
                 document, gateway,
                 tool>>

\* ------------------------------------------------------------- dispatcher
\* One started handler. req is the command it serves; correlationId is the
\* id the handler was passed (0 when it was passed none); calls are the
\* browser primitives it invoked, in order; errors counts what it logged.
Task(p, req, correlationId, pc, calls) ==
  [port |-> p, req |-> req, correlationId |-> correlationId, pc |-> pc,
   calls |-> calls, resource |-> "", newIndex |-> 0, count |-> 0,
   errors |-> 0, content |-> NoContent]

Call(api, tabId, index) == [api |-> api, tabId |-> tabId, index |-> index]

\* socket && socket.readyState === WebSocket.OPEN
SocketIsOpen(p) == socket[p] # 0 /\ sockets[p][socket[p]] = "OPEN"

\* sendResourceToServer up to its await: not open, log and return; else
\* wait for the signature of the resource.
sendResourceToServer(task, resource) ==
  IF ~SocketIsOpen(task.port)
  THEN [task EXCEPT !.pc = "not-open"]
  ELSE [task EXCEPT !.pc = "signing", !.resource = resource]

\* openUrl accepting any url that starts with http.
openUrl_HttpPrefix(p, req) ==
  IF ~StartsWith(req.url, SubSeq(HttpsPrefix, 1, 4))
  THEN Task(p, req, req.correlationId, "invalid-url", <<>>)
  ELSE Task(p, req, req.correlationId, "tabs.create",
            <<Call("tabs.create", 0, 0)>>)

openUrl(p, req) ==
  IF ~StartsWith(req.url, HttpsPrefix)
  THEN Task(p, req, req.correlationId, "invalid-url", <<>>)
  ELSE Task(p, req, req.correlationId, "tabs.create",
            <<Call("tabs.create", 0, 0)>>)

\* closeTabs is passed the tab ids only.
closeTabs(p, req) ==
  Task(p, req, 0, "tabs.remove", <<Call("tabs.remove", 0, 0)>>)

sendTabs(p, req) ==
  Task(p, req, req.correlationId, "tabs.query", <<Call("tabs.query", 0, 0)>>)

sendRecentHistory(p, req) ==
  Task(p, req, req.correlationId, "history.search",
       <<Call("history.search", 0, 0)>>)

sendTabsContent(p, req) ==
  Task(p, req, req.correlationId, "tabs.executeScript",
       <<Call("tabs.executeScript", req.tabId, 0)>>)

reorderTabs(p, req) ==
  IF Len(req.tabOrder) = 0
  THEN sendResourceToServer(Task(p, req, req.correlationId, "", <<>>),
                            "tabs-reordered")
  ELSE Task(p, req, req.correlationId, "tabs.move",
            <<Call("tabs.move", req.tabOrder[1], 0)>>)

findAndHighlightText(p, req) ==
  Task(p, req, req.correlationId, "find.find",
       <<Call("find.find", req.tabId, 0)>>)

\* The case labels of the switch in handleDecodedMessage.
Arms ==
  {"open-tab", "close-tabs", "get-tab-list", "get-browser-recent-history",
   "get-tab-content", "reorder-tabs", "find-highlight"}

\* What the listener reports for a frame: how it ended and the handlers
\* it started.
Handled(verdict, started) == [verdict |-> verdict, started |-> started]

\* handleDecodedMessage with a default arm that answers with the tab list.
handleDecodedMessage_DefaultSendsTabs(p, req) ==
  IF req.type # "object" THEN Handled("parse-error", <<>>)
  ELSE CASE req.cmd = "open-tab" ->
              Handled("dispatched", <<openUrl(p, req)>>)
         [] req.cmd = "close-tabs" ->
              Handled("dispatched", <<closeTabs(p, req)>>)
         [] req.cmd = "get-browser-recent-history" ->
              Handled("dispatched", <<sendRecentHistory(p, req)>>)
         [] req.cmd = "get-tab-content" ->
              Handled("dispatched", <<sendTabsContent(p, req)>>)
         [] req.cmd = "reorder-tabs" ->
              Handled("dispatched", <<reorderTabs(p, req)>>)
         [] req.cmd = "find-highlight" ->
              Handled("dispatched", <<findAndHighlightText(p, req)>>)
         [] OTHER -> Handled("dispatched", <<sendTabs(p, req)>>)

\* The switch on req.cmd. Reading cmd of null or undefined throws a
\* TypeError, which the listener's catch logs.
handleDecodedMessage(p, req) ==
  IF req.type # "object" THEN Handled("parse-error", <<>>)
  ELSE CASE req.cmd = "open-tab" ->
              Handled("dispatched", <<openUrl(p, req)>>)
         [] req.cmd = "close-tabs" ->
              Handled("dispatched", <<closeTabs(p, req)>>)
         [] req.cmd = "get-tab-list" ->
              Handled("dispatched", <<sendTabs(p, req)>>)
         [] req.cmd = "get-browser-recent-history" ->
              Handled("dispatched", <<sendRecentHistory(p, req)>>)
         [] req.cmd = "get-tab-content" ->
              Handled("dispatched", <<sendTabsContent(p, req)>>)
         [] req.cmd = "reorder-tabs" ->
              Handled("dispatched", <<reorderTabs(p, req)>>)
         [] req.cmd = "find-highlight" ->
              Handled("dispatched", <<findAndHighlightText(p, req)>>)
         [] OTHER -> Handled("invalid-message", <<>>)

\* The signature check without the comparison.
SignatureRejected_NoCompare(messageSig, frame) ==
  Len(messageSig) = 0

\* The signature check comparing only a signature that is present.
SignatureRejected_MissingPasses(messageSig, frame) ==
  \/ Len(messageSig) = 0
  \/ frame.hasSignature /\ messageSig # frame.signature

\* messageSig.length === 0 || messageSig !== signedMessage.signature
\* (a missing signature is undefined, which no string equals)
SignatureRejected(messageSig, frame) ==
  \/ Len(messageSig) = 0
  \/ ~(frame.hasSignature /\ messageSig = frame.signature)

\* The listener with JSON.parse outside its try: the SyntaxError escapes.
MessageListener_ParseOutsideTry(p, frame) ==
  IF frame.data = "garbage" THEN Handled("uncaught", <<>>)
  ELSE IF frame.data = "null" THEN Handled("parse-error", <<>>)
  ELSE LET messageSig ==
             getMessageSignature(JSONstringify(frame.payload), secret)
       IN IF SignatureRejected(messageSig, frame)
          THEN Handled("invalid-signature", <<>>)
          ELSE handleDecodedMessage(p, frame.payload)

\* The "message" listener of client p on event.data = frame.
MessageListener(p, frame) ==
  IF frame.data = "garbage" THEN Handled("parse-error", <<>>)
  ELSE IF frame.data = "null" THEN Handled("parse-error", <<>>)
  ELSE LET messageSig ==
             getMessageSignature(JSONstringify(frame.payload), secret)
       IN IF SignatureRejected(messageSig, frame)
          THEN Handled("invalid-signature", <<>>)
          ELSE handleDecodedMessage(p, frame.payload)

\* How the frame's signature relates to the agent's secret (for the record
\* of received frames only; the listener does not read it).
SigClass(frame) ==
  IF frame.data # "object" THEN "none"
  ELSE IF ~frame.hasSignature THEN "missing"
  ELSE IF frame.signature = <<>> THEN "empty"
  ELSE IF frame.signature =
          getMessageSignature(JSONstringify(frame.payload), secret)
       THEN "valid"
  ELSE IF frame.signature[1].msg = JSONstringify(frame.payload)
       THEN "other-key"
  ELSE "other-payload"

\* Socket s of client p is open, so the server's frames reach its listener.
Receiving(p, s) ==
  /\ boot = "running"
  /\ s \in 1..Len(sockets[p])
  /\ sockets[p][s] = "OPEN"

\* The listener holding a frame back until the handlers started before it
\* have ended.
Message_AfterEarlier(p, s, frame, max) ==
  /\ Receiving(p, s)
  /\ \A k \in 1..Len(tasks) :
       tasks[k].pc \in {"sent", "threw", "discarded", "not-open", "logged",
                        "rejected", "done", "invalid-url"}
  /\ LET handled == MessageListener(p, frame)
     IN /\ Len(tasks) + Len(handled.started) <= max
        /\ tasks' = tasks \o handled.started
        /\ lastRx' = [data |-> frame.data,
                      payload |-> IF frame.data = "object"
                                  THEN frame.payload.type ELSE "none",
                      cmd |-> IF frame.data = "object"
                              THEN frame.payload.cmd ELSE "",
                      sig |-> SigClass(frame),
                      verdict |-> handled.verdict,
                      after |-> IF /\ handled.verdict = "dispatched"
                                   /\ lastRx.verdict # "dispatched"
                                THEN lastRx.verdict ELSE "none"]
  /\ UNCHANGED <<boot, secret, sockets, socket, sent, createdTabs, peer,
                 document, gateway,
                 tool>>

\* A frame arrives on socket s of client p, which is open; max bounds the
\* handlers one run starts.
Message(p, s, frame, max) ==
  /\ Receiving(p, s)
  /\ LET handled == MessageListener(p, frame)
     IN /\ Len(tasks) + Len(handled.started) <= max
        /\ tasks' = tasks \o handled.started
        /\ lastRx' = [data |-> frame.data,
                      payload |-> IF frame.data = "object"
                                  THEN frame.payload.type ELSE "none",
                      cmd |-> IF frame.data = "object"
                              THEN frame.payload.cmd ELSE "",
                      sig |-> SigClass(frame),
                      verdict |-> handled.verdict,
                      after |-> IF /\ handled.verdict = "dispatched"
                                   /\ lastRx.verdict # "dispatched"
                                THEN lastRx.verdict ELSE "none"]
  /\ UNCHANGED <<boot, secret, sockets, socket, sent, createdTabs, peer,
                 document, gateway,
                 tool>>

\* ------------------------------------------------------------- primitives
Unchanged_transport ==
  UNCHANGED <<boot, secret, sockets, socket, lastRx, peer, document, gateway,
                 tool>>

\* browser.tabs.create settles: openUrl sends the tab id, or its promise
\* rejects with nothing to catch it.
TabsCreateDone(k, ok) ==
  /\ k \in 1..Len(tasks)
  /\ tasks[k].pc = "tabs.create"
  /\ IF ok
     THEN /\ createdTabs' = Append(createdTabs, tasks[k].req.url)
          /\ tasks' = [tasks EXCEPT ![k] =
               sendResourceToServer(@, "opened-tab-id")]
     ELSE /\ tasks' = [tasks EXCEPT ![k].pc = "rejected"]
          /\ UNCHANGED createdTabs
  /\ UNCHANGED sent
  /\ Unchanged_transport

\* browser.tabs.remove settles: closeTabs logs the outcome.
TabsRemoveDone(k, ok) ==
  /\ k \in 1..Len(tasks)
  /\ tasks[k].pc = "tabs.remove"
  /\ tasks' = [tasks EXCEPT ![k] =
       IF ok THEN [@ EXCEPT !.pc = "done"]
       ELSE [@ EXCEPT !.pc = "logged", !.errors = @ + 1]]
  /\ UNCHANGED <<sent, createdTabs>>
  /\ Unchanged_transport

\* browser.tabs.query resolves: sendTabs sends the list.
TabsQueryDone(k) ==
  /\ k \in 1..Len(tasks)
  /\ tasks[k].pc = "tabs.query"
  /\ tasks' = [tasks EXCEPT ![k] = sendResourceToServer(@, "tabs")]
  /\ UNCHANGED <<sent, createdTabs>>
  /\ Unchanged_transport

\* browser.history.search settles: the items are sent, or the catch logs.
HistorySearchDone(k, ok) ==
  /\ k \in 1..Len(tasks)
  /\ tasks[k].pc = "history.search"
  /\ tasks' = [tasks EXCEPT ![k] =
       IF ok THEN sendResourceToServer(@, "history")
       ELSE [@ EXCEPT !.pc = "logged", !.errors = @ + 1]]
  /\ UNCHANGED <<sent, createdTabs>>
  /\ Unchanged_transport

\* browser.tabs.executeScript settles: the content is sent, or the catch logs.
ExecuteScriptDone(k, ok) ==
  /\ k \in 1..Len(tasks)
  /\ tasks[k].pc = "tabs.executeScript"
  /\ tasks' = [tasks EXCEPT ![k] =
       IF ok
       THEN sendResourceToServer(
              [@ EXCEPT !.content = InjectedScript(document, tasks[k].req.offset)],
              "tab-content")
       ELSE [@ EXCEPT !.pc = "logged", !.errors = @ + 1]]
  /\ UNCHANGED <<sent, createdTabs>>
  /\ Unchanged_transport

\* reorderTabs giving up at the first move that fails.
TabsMoveDone_StopsOnFailure(k, ok) ==
  /\ k \in 1..Len(tasks)
  /\ tasks[k].pc = "tabs.move"
  /\ LET t == [tasks[k] EXCEPT !.errors = IF ok THEN @ ELSE @ + 1,
                               !.newIndex = @ + 1]
     IN tasks' = [tasks EXCEPT ![k] =
          IF ~ok THEN [t EXCEPT !.pc = "logged"]
          ELSE IF t.newIndex < Len(t.req.tabOrder)
          THEN [t EXCEPT !.calls = Append(@,
                  Call("tabs.move", t.req.tabOrder[t.newIndex + 1],
                       t.newIndex))]
          ELSE sendResourceToServer(t, "tabs-reordered")]
  /\ UNCHANGED <<sent, createdTabs>>
  /\ Unchanged_transport

\* One browser.tabs.move of reorderTabs settles: a failure is logged, the
\* loop goes on to the next index, and after the last one the order is sent.
TabsMoveDone(k, ok) ==
  /\ k \in 1..Len(tasks)
  /\ tasks[k].pc = "tabs.move"
  /\ LET t == [tasks[k] EXCEPT !.errors = IF ok THEN @ ELSE @ + 1,
                               !.newIndex = @ + 1]
     IN tasks' = [tasks EXCEPT ![k] =
          IF t.newIndex < Len(t.req.tabOrder)
          THEN [t EXCEPT !.calls = Append(@,
                  Call("tabs.move", t.req.tabOrder[t.newIndex + 1],
                       t.newIndex))]
          ELSE sendResourceToServer(t, "tabs-reordered")]
  /\ UNCHANGED <<sent, createdTabs>>
  /\ Unchanged_transport

\* findAndHighlightText activating the tab whatever the count.
FindDone_AlwaysActivates(k, ok, count) ==
  /\ k \in 1..Len(tasks)
  /\ tasks[k].pc = "find.find"
  /\ LET t == tasks[k]
     IN tasks' = [tasks EXCEPT ![k] =
          IF ~ok THEN [t EXCEPT !.pc = "rejected"]
          ELSE [t EXCEPT !.pc = "tabs.update", !.count = count,
                         !.calls = Append(@, Call("tabs.update", t.req.tabId, 0))]]
  /\ UNCHANGED <<sent, createdTabs>>
  /\ Unchanged_transport

\* browser.find.find settles: with matches the tab is activated next,
\* without any the count is sent; a rejection has nothing to catch it.
FindDone(k, ok, count) ==
  /\ k \in 1..Len(tasks)
  /\ tasks[k].pc = "find.find"
  /\ LET t == tasks[k]
     IN tasks' = [tasks EXCEPT ![k] =
          IF ~ok THEN [t EXCEPT !.pc = "rejected"]
          ELSE IF count > 0
          THEN [t EXCEPT !.pc = "tabs.update", !.count = count,
                         !.calls = Append(@, Call("tabs.update", t.req.tabId, 0))]
          ELSE sendResourceToServer([t EXCEPT !.count = count],
                                    "find-highlight-result")]
  /\ UNCHANGED <<sent, createdTabs>>
  /\ Unchanged_transport

\* findAndHighlightText sending the count without highlighting.
TabsUpdateDone_NoHighlight(k, ok) ==
  /\ k \in 1..Len(tasks)
  /\ tasks[k].pc = "tabs.update"
  /\ LET t == tasks[k]
     IN tasks' = [tasks EXCEPT ![k] =
          IF ~ok THEN [t EXCEPT !.pc = "rejected"]
          ELSE sendResourceToServer(t, "find-highlight-result")]
  /\ UNCHANGED <<sent, createdTabs>>
  /\ Unchanged_transport

\* browser.tabs.update settles: the results are highlighted and the count
\* is sent; a rejection has nothing to catch it.
TabsUpdateDone(k, ok) ==
  /\ k \in 1..Len(tasks)
  /\ tasks[k].pc = "tabs.update"
  /\ LET t == tasks[k]
     IN tasks' = [tasks EXCEPT ![k] =
          IF ~ok THEN [t EXCEPT !.pc = "rejected"]
          ELSE sendResourceToServer(
                 [t EXCEPT !.calls = Append(@,
                    Call("find.highlightResults", t.req.tabId, 0))],
                 "find-highlight-result")]
  /\ UNCHANGED <<sent, createdTabs>>
  /\ Unchanged_transport

\* The resource tagged with the id of the command received last.
Resource_LastCorrelation(task) ==
  [type |-> "object", resource |-> task.resource,
   correlationId |-> tasks[Len(tasks)].req.correlationId,
   tabOrder |-> IF task.resource = "tabs-reordered"
                THEN task.req.tabOrder ELSE <<>>,
   noOfResults |-> task.count,
   content |-> task.content]

\* The ExtensionMessage a handler sends: the resource, the correlation id
\* and the fields of its kind (the order requested, the number of matches,
\* the script's result), each empty in the other kinds.
Resource(task) ==
  [type |-> "object", resource |-> task.resource,
   correlationId |-> task.correlationId,
   tabOrder |-> IF task.resource = "tabs-reordered"
                THEN task.req.tabOrder ELSE <<>>,
   noOfResults |-> task.count,
   content |-> task.content]

\* WebSocket.send by readyState: OPEN transmits, CONNECTING throws
\* InvalidStateError, CLOSING and CLOSED discard the data silently.
SocketSend(readyState) ==
  CASE readyState = "OPEN" -> "sent"
    [] readyState = "CONNECTING" -> "threw"
    [] OTHER -> "discarded"

\* sendResourceToServer after its await: the signature is there and the
\* frame goes to whatever the socket variable holds now.
SendSigned(k) ==
  /\ k \in 1..Len(tasks)
  /\ tasks[k].pc = "signing"
  /\ LET p == tasks[k].port
         outcome == SocketSend(sockets[p][socket[p]])
     IN /\ tasks' = [tasks EXCEPT ![k].pc = outcome]
        /\ sent' = IF outcome = "sent"
                   THEN Append(sent,
                          [port |-> p, socket |-> socket[p], task |-> k,
                           readyState |-> sockets[p][socket[p]],
                           payload |-> Resource(tasks[k]),
                           signature |-> getMessageSignature(
                             JSONstringify(Resource(tasks[k])), secret)])
                   ELSE sent
  /\ UNCHANGED createdTabs
  /\ Unchanged_transport

\* ---------------------------------------------------------- specifications
Transport ==
  \/ ConfigLoaded
  \/ ConfigFailed
  \/ \E p \in Ports : ReconnectTick(p)
  \/ \E p \in Listening : \E s \in 1..MaxSockets : SocketOpened(p, s)
  \/ \E p \in Ports : \E s \in 1..MaxSockets : SocketFailed(p, s)
  \/ \E p \in Ports : \E s \in 1..MaxSockets : SocketClosed(p, s)

\* The correlation id the server gives its next command: one more than
\* the last.
FreshId == Len(tasks) + 1

\* The correlation id of a frame of any origin: a fresh one, or one that a
\* command dispatched earlier already carried (a replayed frame).
CorrelationIds == 1..FreshId

\* The commands of the vocabulary, and one outside it, with correlation id c.
Commands(c) ==
  <<OpenTab(c, UrlHttps), OpenTab(c, UrlHttp), OpenTab(c, UrlShort),
    CloseTabs(c), GetTabList(c), GetHistory(c), GetTabContent(c),
    ReorderTabs(c), FindHighlight(c), GroupTabs(c), Screenshot(c)>>

\* The server sends a command, signed with its key.
ServerMessage(p, s) ==
  /\ Receiving(p, s)
  /\ \E n \in 1..Len(Commands(FreshId)) :
       Message(p, s, Signed(Commands(FreshId)[n], ServerSecret), MaxCmds)

Handlers ==
  \/ \E k \in 1..MaxCmds : \E ok \in BOOLEAN : TabsCreateDone(k, ok)
  \/ \E k \in 1..MaxCmds : \E ok \in BOOLEAN : TabsRemoveDone(k, ok)
  \/ \E k \in 1..MaxCmds : TabsQueryDone(k)
  \/ \E k \in 1..MaxCmds : \E ok \in BOOLEAN : HistorySearchDone(k, ok)
  \/ \E k \in 1..MaxCmds : \E ok \in BOOLEAN : ExecuteScriptDone(k, ok)
  \/ \E k \in 1..MaxCmds : \E ok \in BOOLEAN : TabsMoveDone(k, ok)
  \/ \E k \in 1..MaxCmds : \E ok \in BOOLEAN : \E count \in {0, 2} :
       FindDone(k, ok, count)
  \/ \E k \in 1..MaxCmds : \E ok \in BOOLEAN : TabsUpdateDone(k, ok)
  \/ \E k \in 1..MaxCmds : SendSigned(k)

Next ==
  \/ Transport
  \/ \E p \in Ports : \E s \in 1..MaxSockets : ServerMessage(p, s)
  \/ Handlers

Spec == Init /\ [][Next]_vars

\* Two commands in flight: the server sends the commands that answer with
\* different resources, and the one that answers with none.
PairCommands(c) == <<OpenTab(c, UrlHttps), CloseTabs(c), GetTabList(c)>>

PairMessage(p, s) ==
  /\ Receiving(p, s)
  /\ \E c \in CorrelationIds : \E n \in 1..Len(PairCommands(c)) :
       Message(p, s, Signed(PairCommands(c)[n], ServerSecret), MaxPair)

PairHandlers ==
  \/ \E k \in 1..MaxPair : \E ok \in BOOLEAN : TabsCreateDone(k, ok)
  \/ \E k \in 1..MaxPair : \E ok \in BOOLEAN : TabsRemoveDone(k, ok)
  \/ \E k \in 1..MaxPair : TabsQueryDone(k)
  \/ \E k \in 1..MaxPair : SendSigned(k)

NextPair ==
  \/ Transport
  \/ \E p \in Ports : \E s \in 1..MaxSockets : PairMessage(p, s)
  \/ PairHandlers

SpecPair == Init /\ [][NextPair]_vars

\* Frames of any origin: what a peer with either key signs, and what comes
\* of a signed frame when its payload or its signature is replaced on the
\* way, besides text that is not JSON or is not an object.
AuthFrames(c) ==
  <<Signed(GetTabList(c), ServerSecret),
    Signed(GetTabList(c), "k2"),
    [Signed(OpenTab(c, UrlHttps), ServerSecret) EXCEPT !.payload = GetTabList(c)],
    [Signed(OpenTab(c, UrlHttps), "k2") EXCEPT !.payload = GetTabList(c)],
    Frame("object", GetTabList(c), TRUE, <<>>),
    Frame("object", GetTabList(c), FALSE, <<>>),
    Frame("object", UndefinedPayload, FALSE, <<>>),
    Signed(UndefinedPayload, ServerSecret),
    Signed(UndefinedPayload, "k2"),
    Signed(NullPayload, ServerSecret),
    Signed(NullPayload, "k2"),
    GarbageFrame,
    NullFrame>>

AnyMessage(p, s) ==
  /\ Receiving(p, s)
  /\ \E c \in CorrelationIds : \E n \in 1..Len(AuthFrames(c)) :
       Message(p, s, AuthFrames(c)[n], MaxCmds)

AuthHandlers ==
  \/ \E k \in 1..MaxCmds : TabsQueryDone(k)
  \/ \E k \in 1..MaxCmds : SendSigned(k)

NextAuth ==
  \/ Transport
  \/ \E p \in Ports : \E s \in 1..MaxSockets : AnyMessage(p, s)
  \/ AuthHandlers

SpecAuth == Init /\ [][NextAuth]_vars

\* The transport alone, with servers that start and stop: a connection
\* attempt succeeds where a server listens and is refused where none does,
\* and an open connection can drop at any time.
InitLive ==
  /\ boot = "loading"
  /\ secret \in ConfigSecrets
  /\ sockets = [p \in Ports |-> <<>>]
  /\ socket = [p \in Ports |-> 0]
  /\ tasks = <<>>
  /\ sent = <<>>
  /\ createdTabs = <<>>
  /\ lastRx = NoRx
  /\ peer \in SUBSET Ports
  /\ document = Page(MaxDoc)
  /\ gateway = NoGateway
  /\ tool = NoTool

Unchanged_agent ==
  UNCHANGED <<boot, secret, sockets, socket, tasks, sent, createdTabs, lastRx,
              document, gateway,
                 tool>>

PeerStarts(p) ==
  /\ p \notin peer
  /\ peer' = peer \cup {p}
  /\ Unchanged_agent

PeerStops(p) ==
  /\ p \in peer
  /\ peer' = peer \ {p}
  /\ Unchanged_agent

Handshake(p, s) ==
  /\ p \in peer
  /\ SocketOpened(p, s)

ConnectRefused(p, s) ==
  /\ p \notin peer
  /\ s \in 1..Len(sockets[p])
  /\ sockets[p][s] = "CONNECTING"
  /\ SocketFailed(p, s)

ConnectionLost(p, s) ==
  /\ s \in 1..Len(sockets[p])
  /\ sockets[p][s] = "OPEN"
  /\ SocketFailed(p, s)

NextLive ==
  \/ ConfigLoaded
  \/ ConfigFailed
  \/ \E p \in Ports : ReconnectTick(p)
  \/ \E p \in Ports : PeerStarts(p)
  \/ \E p \in Ports : PeerStops(p)
  \/ \E p \in Ports : \E s \in 1..MaxSockets : Handshake(p, s)
  \/ \E p \in Ports : \E s \in 1..MaxSockets : ConnectRefused(p, s)
  \/ \E p \in Ports : \E s \in 1..MaxSockets : ConnectionLost(p, s)
  \/ \E p \in Ports : \E s \in 1..MaxSockets : SocketClosed(p, s)

\* The interval timer keeps firing, and a connection attempt is settled by
\* the network: accepted by a server that listens, refused where none does.
SpecLive ==
  /\ InitLive
  /\ [][NextLive]_vars
  /\ \A p \in Ports : WF_vars(ReconnectTick(p))
  /\ \A p \in Ports : \A s \in 1..MaxSockets : WF_vars(Handshake(p, s))
  /\ \A p \in Ports : \A s \in 1..MaxSockets : WF_vars(ConnectRefused(p, s))

\* A server on each port: either client can be connected, and a command
\* can arrive on either.
InitDual ==
  /\ boot = "loading"
  /\ secret \in ConfigSecrets
  /\ sockets = [p \in Ports |-> <<>>]
  /\ socket = [p \in Ports |-> 0]
  /\ tasks = <<>>
  /\ sent = <<>>
  /\ createdTabs = <<>>
  /\ lastRx = NoRx
  /\ peer = Ports
  /\ document = Page(MaxDoc)
  /\ gateway = NoGateway
  /\ tool = NoTool

DualMessage(p, s) ==
  /\ Receiving(p, s)
  /\ Message(p, s, Signed(GetTabList(FreshId), ServerSecret), MaxCmds)

NextDual ==
  \/ ConfigLoaded
  \/ ConfigFailed
  \/ \E p \in Ports : ReconnectTick(p)
  \/ \E p \in Ports : \E s \in 1..MaxSockets : Handshake(p, s)
  \/ \E p \in Ports : \E s \in 1..MaxSockets : SocketFailed(p, s)
  \/ \E p \in Ports : \E s \in 1..MaxSockets : SocketClosed(p, s)
  \/ \E p \in Ports : \E s \in 1..MaxSockets : DualMessage(p, s)
  \/ \E k \in 1..MaxCmds : TabsQueryDone(k)
  \/ \E k \in 1..MaxCmds : SendSigned(k)

SpecDual == InitDual /\ [][NextDual]_vars

\* Reading a page: the server asks for the content of the tab at any
\* offset, one request at a time, over a connection that stays open.
InitPager ==
  /\ boot = "loading"
  /\ secret \in ConfigSecrets
  /\ sockets = [p \in Ports |-> <<>>]
  /\ socket = [p \in Ports |-> 0]
  /\ tasks = <<>>
  /\ sent = <<>>
  /\ createdTabs = <<>>
  /\ lastRx = NoRx
  /\ peer = Listening
  /\ document \in Pages
  /\ gateway = NoGateway
  /\ tool = NoTool

\* The offsets a request can carry: none, a negative one, every position
\* of the longest page and one past it.
Offsets == {Undefined} \cup {Number(n) : n \in -1..(MaxDoc + 1)}

\* The handler has ended, with or without a Result.
Settled(task) ==
  task.pc \in {"sent", "threw", "discarded", "not-open", "logged", "rejected",
               "done", "invalid-url"}

PagerMessage(p, s) ==
  /\ Receiving(p, s)
  /\ \A k \in 1..Len(tasks) : Settled(tasks[k])
  /\ \E offset \in Offsets :
       Message(p, s, Signed(GetTabContentAt(FreshId, offset), ServerSecret),
               MaxReads)

NextPager ==
  \/ ConfigLoaded
  \/ ConfigFailed
  \/ \E p \in Ports : \E s \in 1..MaxSockets : Handshake(p, s)
  \/ \E p \in Ports : \E s \in 1..MaxSockets : PagerMessage(p, s)
  \/ \E k \in 1..MaxReads : ExecuteScriptDone(k, TRUE)
  \/ \E k \in 1..MaxReads : SendSigned(k)

SpecPager == InitPager /\ [][NextPager]_vars

\* ------------------------------------------------------- front-end tools
\* The numbers a tool is called with need not be whole: they are counted
\* here in halves, so that 3 stands for 1.5 and Twice(n) for the integer n.
Twice(n) == 2 * n

\* Number.isInteger
IsInteger(h) == h % 2 = 0

\* ToIntegerOrInfinity of a number that is not negative: the fraction is
\* dropped.
ToInteger(h) == h \div 2

Min(a, b) == IF a < b THEN a ELSE b
Max(a, b) == IF a > b THEN a ELSE b

\* Array.prototype.slice(start, end) for start and end that are not
\* negative: the elements of the 0-based indices start .. end - 1.
slice(array, start, end) ==
  SubSeq(array, ToInteger(start) + 1, Min(ToInteger(end), Len(array)))

\* The schema of get-list-of-open-tabs: offset is an integer that is not
\* negative; limit is any number.
TabListSchema(offset, limit) == IsInteger(offset) /\ offset >= 0

\* Math.min(Math.max(1, limit), 500)
effectiveLimit(limit) == Min(Max(Twice(1), limit), Twice(MaxLimit))

\* The handler of get-list-of-open-tabs on the tab list openTabs: the tabs
\* it lists, whether it adds the hint, and the offset the hint names.
getListOfOpenTabs(offset, limit, openTabs) ==
  [offset |-> offset,
   limit |-> limit,
   tabs |-> slice(openTabs, offset, offset + effectiveLimit(limit)),
   hasMore |-> offset + effectiveLimit(limit) < Twice(Len(openTabs)),
   hint |-> offset + effectiveLimit(limit),
   totalTabs |-> Len(openTabs)]

NoReply ==
  [offset |-> 0, limit |-> 0, tabs |-> <<>>, hasMore |-> FALSE, hint |-> 0,
   totalTabs |-> 0]

\* The tab lists the agent reports: n tabs, the tab at 0-based index i
\* having the id i + 1.
TabLists == {[i \in 1..n |-> i] : n \in 0..MaxTabs}

\* A caller lists the tabs: any call, or the call the hint of the last
\* reply asks for. seen collects the tabs listed since the last call at
\* offset 0, following == "yes" while every call since was the hinted one.
InitTabs ==
  /\ boot = "loading"
  /\ secret = ServerSecret
  /\ sockets = [p \in Ports |-> <<>>]
  /\ socket = [p \in Ports |-> 0]
  /\ tasks = <<>>
  /\ sent = <<>>
  /\ createdTabs = <<>>
  /\ lastRx = NoRx
  /\ peer = Listening
  /\ document = Page(MaxDoc)
  /\ gateway = NoGateway
  /\ \E openTabs \in TabLists :
       tool = [name |-> "get-list-of-open-tabs", openTabs |-> openTabs,
               calls |-> 0, reply |-> NoReply, seen |-> <<>>,
               following |-> "no"]

Unchanged_extension ==
  UNCHANGED <<boot, secret, sockets, socket, tasks, sent, createdTabs, lastRx,
              peer, document>>

\* The offsets and limits of the calls, in halves.
TabOffsets == 0..Twice(MaxTabs + 1)
TabLimits == -1..Twice(MaxLimit + 1)

ListTabs(offset, limit) ==
  /\ tool.name = "get-list-of-open-tabs"
  /\ tool.calls < MaxReads
  /\ TabListSchema(offset, limit)
  /\ LET reply == getListOfOpenTabs(offset, limit, tool.openTabs)
     IN tool' = [tool EXCEPT !.calls = @ + 1,
                             !.reply = reply,
                             !.seen = reply.tabs,
                             !.following = IF offset = 0 THEN "yes" ELSE "no"]
  /\ UNCHANGED gateway
  /\ Unchanged_extension

\* The caller does what the hint says: the same limit at the hinted
\* offset, which the schema may reject.
FollowHint ==
  /\ tool.name = "get-list-of-open-tabs"
  /\ tool.calls < MaxReads
  /\ tool.following = "yes"
  /\ tool.reply.hasMore
  /\ IF ~TabListSchema(tool.reply.hint, tool.reply.limit)
     THEN tool' = [tool EXCEPT !.calls = @ + 1, !.following = "rejected"]
     ELSE LET reply == getListOfOpenTabs(tool.reply.hint, tool.reply.limit,
                                         tool.openTabs)
          IN tool' = [tool EXCEPT !.calls = @ + 1,
                                  !.reply = reply,
                                  !.seen = @ \o reply.tabs]
  /\ UNCHANGED gateway
  /\ Unchanged_extension

NextTabs ==
  \/ \E offset \in TabOffsets : \E limit \in TabLimits : ListTabs(offset, limit)
  \/ FollowHint

SpecTabs == InitTabs /\ [][NextTabs]_vars

\* The handler of get-tab-web-content for the content the agent returned:
\* the links only at offset 0, the text, and the hint with the range
\* offset .. offset + text.length out of totalLength when the content is
\* truncated or the offset is not 0.
getTabWebContent(offset, content) ==
  [offset |-> offset,
   links |-> IF offset = 0 THEN content.links ELSE <<>>,
   text |-> content.fullText,
   isTruncated |-> content.isTruncated,
   hint |-> content.isTruncated \/ offset > 0,
   rangeFrom |-> offset,
   rangeTo |-> offset + Len(content.fullText),
   totalLength |-> content.totalLength]

\* A caller reads the page through the tool, at any offset.
InitContent ==
  /\ boot = "loading"
  /\ secret = ServerSecret
  /\ sockets = [p \in Ports |-> <<>>]
  /\ socket = [p \in Ports |-> 0]
  /\ tasks = <<>>
  /\ sent = <<>>
  /\ createdTabs = <<>>
  /\ lastRx = NoRx
  /\ peer = Listening
  /\ document \in Pages
  /\ gateway = NoGateway
  /\ tool = [name |-> "get-tab-web-content", calls |-> 0,
             reply |-> getTabWebContent(0, NoContent)]

\* The offsets of the calls: a negative one, every position of the longest
\* page and one past it.
ContentOffsets == -1..(MaxDoc + 1)

\* browserApi.getTabContent(tabId, offset) returns what the agent's script
\* produces for the page at that offset.
GetTabWebContent(offset) ==
  /\ tool.name = "get-tab-web-content"
  /\ tool.calls < MaxReads
  /\ tool' = [tool EXCEPT !.calls = @ + 1,
                          !.reply = getTabWebContent(
                            offset, InjectedScript(document, Number(offset)))]
  /\ UNCHANGED gateway
  /\ Unchanged_extension

NextContent == \E offset \in ContentOffsets : GetTabWebContent(offset)

SpecContent == InitContent /\ [][NextContent]_vars

\* bulk-download. tool.downloads is the number of entries, tool.i the
\* 1-based entry the loop is at, tool.pc the call the handler awaits,
\* tool.tabId the tab opened for the entry, tool.results the results pushed,
\* tool.opened the tabs browserApi.openTab returned and tool.closeRequested
\* the tabs browserApi.closeTabs was called with.
InitBulk ==
  /\ boot = "loading"
  /\ secret = ServerSecret
  /\ sockets = [p \in Ports |-> <<>>]
  /\ socket = [p \in Ports |-> 0]
  /\ tasks = <<>>
  /\ sent = <<>>
  /\ createdTabs = <<>>
  /\ lastRx = NoRx
  /\ peer = Listening
  /\ document = Page(MaxDoc)
  /\ gateway = NoGateway
  /\ \E n \in 0..MaxDownloads :
       tool = [name |-> "bulk-download", downloads |-> n, pc |-> "mkdir",
               i |-> 0, tabId |-> 0, results |-> <<>>, opened |-> {},
               closeRequested |-> {}, successful |-> 0, failed |-> 0]

\* results.filter(r => r.status === status).length
CountStatus(results, status) ==
  Cardinality({j \in 1..Len(results) : results[j].status = status})

\* results.push for the entry the loop is at.
BulkPush(t, status) ==
  [t EXCEPT !.results = Append(@, [entry |-> t.i, status |-> status])]

\* The loop goes on to the next entry, or the handler returns the summary.
BulkContinue(t) ==
  IF t.i < t.downloads
  THEN [t EXCEPT !.i = @ + 1, !.tabId = 0, !.pc = "openTab"]
  ELSE [t EXCEPT !.pc = "returned",
                 !.successful = CountStatus(t.results, "success"),
                 !.failed = CountStatus(t.results, "failed")]

\* browserApi.closeTabs([tabId]) is called and awaited.
BulkClose(t, pc) ==
  [t EXCEPT !.closeRequested = @ \cup {t.tabId}, !.pc = pc]

\* The outcomes of an awaited call: it returns a value, returns nothing
\* (undefined), or rejects (a timeout, a lost connection, an I/O error).
Outcomes == {"value", "undefined", "throws"}

\* The loop's catch: the entry is failed and the loop goes on.
BulkCatch(t) == BulkContinue(BulkPush(t, "failed"))

Bulk(pc, next) ==
  /\ tool.name = "bulk-download"
  /\ tool.pc = pc
  /\ tool' = next
  /\ UNCHANGED gateway
  /\ Unchanged_extension

\* fs.mkdir settles: the loop starts, or the handler returns the error.
MkdirDone(ok) ==
  Bulk("mkdir",
       IF ok THEN BulkContinue(tool)
       ELSE [tool EXCEPT !.pc = "returned-mkdir-failed"])

\* browserApi.openTab settles.
OpenTabDone(outcome) ==
  Bulk("openTab",
       CASE outcome = "value" ->
              [tool EXCEPT !.tabId = Cardinality(tool.opened) + 1,
                           !.opened = @ \cup {Cardinality(tool.opened) + 1},
                           !.pc = "wait"]
         [] outcome = "undefined" -> BulkContinue(BulkPush(tool, "failed"))
         [] OTHER -> BulkCatch(tool))

\* The 2-second wait for the page to load is over.
WaitDone == Bulk("wait", [tool EXCEPT !.pc = "getTabContent"])

\* browserApi.getTabContent settles.
GetContentDone(outcome) ==
  Bulk("getTabContent",
       CASE outcome = "value" -> [tool EXCEPT !.pc = "getTabList"]
         [] outcome = "undefined" ->
              BulkClose(BulkPush(tool, "failed"), "closeTabs")
         [] OTHER -> BulkCatch(tool))

\* browserApi.getTabList settles; no list (tabs?.find) means no title.
GetTabListDone(outcome) ==
  Bulk("getTabList",
       IF outcome = "throws" THEN BulkCatch(tool)
       ELSE [tool EXCEPT !.pc = "writeFile"])

\* fs.writeFile settles.
WriteFileDone(ok) ==
  Bulk("writeFile",
       IF ok THEN BulkClose(BulkPush(tool, "success"), "closeTabs")
       ELSE BulkCatch(tool))

\* browserApi.closeTabs settles, after either push.
CloseTabsDone(ok) ==
  Bulk("closeTabs", IF ok THEN BulkContinue(tool) ELSE BulkCatch(tool))

NextBulk ==
  \/ \E ok \in BOOLEAN : MkdirDone(ok)
  \/ \E outcome \in Outcomes : OpenTabDone(outcome)
  \/ WaitDone
  \/ \E outcome \in Outcomes : GetContentDone(outcome)
  \/ \E outcome \in Outcomes : GetTabListDone(outcome)
  \/ \E ok \in BOOLEAN : WriteFileDone(ok)
  \/ \E ok \in BOOLEAN : CloseTabsDone(ok)

SpecBulk == InitBulk /\ [][NextBulk]_vars

\* -------------------------------------------------------- request gateway
\* The front-end's side of the bus. gateway.channel is the state of its
\* transport endpoint; gateway.calls[id] is the list of completions the
\* caller of call id has received; gateway.pending is the set of ids with a
\* pending entry; gateway.last is what the gateway did last.
InitGateway ==
  /\ boot = "loading"
  /\ secret = ServerSecret
  /\ sockets = [p \in Ports |-> <<>>]
  /\ socket = [p \in Ports |-> 0]
  /\ tasks = <<>>
  /\ sent = <<>>
  /\ createdTabs = <<>>
  /\ lastRx = NoRx
  /\ peer = Listening
  /\ document = Page(MaxDoc)
  /\ gateway = NoGateway
  /\ tool = NoTool

\* The agent connects to the endpoint.
ChannelOpens ==
  /\ gateway.channel = "Disconnected"
  /\ gateway' = [gateway EXCEPT !.channel = "Open", !.last = "opened"]
  /\ UNCHANGED tool
  /\ Unchanged_extension

\* rejectAll that drops the pending entries without completing the callers.
rejectAll_DropsOnly(g, error) == [g EXCEPT !.pending = {}]

\* rejectAll(error): every pending entry is removed and its caller
\* completed with the error.
rejectAll(g, error) ==
  [g EXCEPT !.pending = {},
            !.calls = [id \in 1..Len(g.calls) |->
                         IF id \in g.pending
                         THEN Append(g.calls[id], error)
                         ELSE g.calls[id]]]

\* The endpoint goes from Open to Disconnected: every pending request is
\* rejected with a connectivity error.
ChannelDrops ==
  /\ gateway.channel = "Open"
  /\ gateway' = [rejectAll(gateway, "Disconnected")
                   EXCEPT !.channel = "Disconnected", !.last = "rejected-all"]
  /\ UNCHANGED tool
  /\ Unchanged_extension

\* newId(): one more than the last id, never reused.
newId(g) == Len(g.calls) + 1

\* call(): a fresh id, a pending entry, the command sent (silently lost
\* when the endpoint is not Open), the caller suspended.
GatewayCall ==
  /\ Len(gateway.calls) < MaxCalls
  /\ gateway' = [gateway EXCEPT !.calls = Append(@, <<>>),
                                !.pending = @ \cup {newId(gateway)},
                                !.last = "called"]
  /\ UNCHANGED tool
  /\ Unchanged_extension

\* resolve completing the caller whether or not an entry is pending.
resolve_AnyId(g, id, result) ==
  [g EXCEPT !.pending = @ \ {id},
            !.calls[id] = Append(@, result),
            !.last = "resolved"]

\* resolve(id, result): a pending entry is removed and its caller
\* completed; an id with no pending entry is logged and dropped.
resolve(g, id, result) ==
  IF id \in g.pending
  THEN [g EXCEPT !.pending = @ \ {id},
                 !.calls[id] = Append(@, result),
                 !.last = "resolved"]
  ELSE [g EXCEPT !.last = "unmatched"]

\* A Result with correlation id id arrives on the open endpoint.
GatewayReply(id) ==
  /\ gateway.channel = "Open"
  /\ id \in 1..Len(gateway.calls)
  /\ gateway' = resolve(gateway, id, "Result")
  /\ UNCHANGED tool
  /\ Unchanged_extension

\* The deadline of call id passes while its entry is pending: the entry is
\* removed and the caller completed with a Timeout error.
GatewayTimeout(id) ==
  /\ id \in gateway.pending
  /\ gateway' = [gateway EXCEPT !.pending = @ \ {id},
                                !.calls[id] = Append(@, "Timeout"),
                                !.last = "timed-out"]
  /\ UNCHANGED tool
  /\ Unchanged_extension

NextGateway ==
  \/ ChannelOpens
  \/ ChannelDrops
  \/ GatewayCall
  \/ \E id \in 1..MaxCalls : GatewayReply(id)
  \/ \E id \in 1..MaxCalls : GatewayTimeout(id)

SpecGateway == InitGateway /\ [][NextGateway]_vars

\* ------------------------------------------------------------------ claims
\* C1: a handler is started only by a frame whose signature is the MAC of
\* its payload under the agent's secret; a frame whose signature does not
\* match (payload or signature replaced, or signed with another key, or no
\* signature) ends as an invalid signature and starts no handler, invokes
\* no primitive and sends nothing.
C1_OnlyAuthenticDispatched ==
  [][/\ Len(tasks') > Len(tasks) =>
          lastRx'.sig = "valid" /\ lastRx'.verdict = "dispatched"
     /\ (/\ lastRx' # lastRx
         /\ lastRx'.sig \in {"missing", "empty", "other-key", "other-payload"})
        => /\ lastRx'.verdict = "invalid-signature"
           /\ UNCHANGED <<tasks, sent, createdTabs>>]_vars

\* A frame whose payload was replaced after signing has been dropped by an
\* agent that holds the server's key.
C1_Witness ==
  /\ secret = ServerSecret
  /\ lastRx.sig = "other-payload"
  /\ lastRx.verdict = "invalid-signature"

\* C2: a frame with an empty or a missing signature is always rejected; the
\* check rejects an empty computed signature even against an empty
\* signature; and with config.secret missing or empty no client starts.
C2_EmptySignatureRejected ==
  /\ lastRx.sig \in {"missing", "empty"} => lastRx.verdict = "invalid-signature"
  /\ SignatureRejected(<<>>, Frame("object", GetTabList(1), TRUE, <<>>))
  /\ secret \in {NoSecret, ""} =>
       /\ boot # "running"
       /\ \A p \in Ports : socket[p] = 0 /\ sockets[p] = <<>>
       /\ tasks = <<>>
       /\ lastRx = NoRx

\* A frame with an empty signature has been received and rejected.
C2_Witness ==
  /\ lastRx.sig = "empty"
  /\ lastRx.verdict = "invalid-signature"

\* C3: every tab created has a url that starts with https://, and the
\* handler of an open-tab command with any other url invokes no primitive
\* and sends no Result.
C3_OnlyHttpsOpened ==
  /\ \A i \in 1..Len(createdTabs) : StartsWith(createdTabs[i], HttpsPrefix)
  /\ \A k \in 1..Len(tasks) :
       (/\ tasks[k].req.cmd = "open-tab"
        /\ ~StartsWith(tasks[k].req.url, HttpsPrefix))
       => /\ tasks[k].calls = <<>>
          /\ tasks[k].pc = "invalid-url"
          /\ \A i \in 1..Len(sent) : sent[i].task # k

\* An open-tab command for http://a has been dispatched and dropped.
C3_Witness ==
  \E k \in 1..Len(tasks) :
    /\ tasks[k].req.cmd = "open-tab"
    /\ tasks[k].req.url = UrlHttp
    /\ tasks[k].pc = "invalid-url"

\* The resource each command is answered with (section 6 of the spec).
ResultKind(cmd) ==
  CASE cmd = "open-tab" -> "opened-tab-id"
    [] cmd = "get-tab-list" -> "tabs"
    [] cmd = "get-browser-recent-history" -> "history"
    [] cmd = "get-tab-content" -> "tab-content"
    [] cmd = "reorder-tabs" -> "tabs-reordered"
    [] cmd = "find-highlight" -> "find-highlight-result"
    [] OTHER -> "none"

\* C4: every frame transmitted answers a handler that a received command
\* started, carries that command's correlation id and the resource of its
\* kind, and no handler is answered twice.
C4_ResultsCorrelated ==
  \A i \in 1..Len(sent) :
    /\ sent[i].task \in 1..Len(tasks)
    /\ sent[i].payload.correlationId = tasks[sent[i].task].req.correlationId
    /\ sent[i].payload.resource = ResultKind(tasks[sent[i].task].req.cmd)
    /\ \A j \in 1..Len(sent) : sent[j].task = sent[i].task => j = i

\* Two commands with different ids were answered in the reverse order.
C4_Witness ==
  /\ Len(sent) = 2
  /\ sent[1].task = 2
  /\ sent[2].task = 1
  /\ sent[1].payload.correlationId # sent[2].payload.correlationId

\* C5: once the closures of a close-tabs command have settled, a Result
\* with the command's correlation id has been transmitted.
C5_CloseTabsAnswered ==
  \A k \in 1..Len(tasks) :
    (tasks[k].req.cmd = "close-tabs" /\ tasks[k].pc \in {"done", "logged"})
    => \E i \in 1..Len(sent) :
         /\ sent[i].task = k
         /\ sent[i].payload.correlationId = tasks[k].req.correlationId

\* C6: an authenticated group-tabs command is dispatched, never dropped as
\* an unknown kind.
C6_GroupTabsDispatched ==
  (/\ lastRx.cmd = "group-tabs"
   /\ lastRx.sig = "valid")
  => lastRx.verdict = "dispatched"

\* C7: when the primitive of a single-target command has failed, a Result
\* with the command's correlation id has been transmitted.
C7_FailureAnswered ==
  \A k \in 1..Len(tasks) :
    (/\ tasks[k].req.cmd \in {"open-tab", "get-tab-content", "find-highlight",
                              "get-browser-recent-history"}
     /\ tasks[k].pc \in {"rejected", "logged"})
    => \E i \in 1..Len(sent) :
         /\ sent[i].task = k
         /\ sent[i].payload.correlationId = tasks[k].req.correlationId

\* C8: sendResourceToServer never throws, and every frame it transmits goes
\* out on a socket that is OPEN.
C8_SendNeverThrows ==
  /\ \A k \in 1..Len(tasks) : tasks[k].pc # "threw"
  /\ \A i \in 1..Len(sent) : sent[i].readyState = "OPEN"

\* C9: a frame that is not JSON, is the JSON null, or has no payload or a
\* null payload ends in the listener's catch or as an invalid signature and
\* changes nothing but the record of the last frame; only an object with an
\* object payload starts a handler.
C9_MalformedDropped ==
  [][/\ (/\ lastRx' # lastRx
         /\ \/ lastRx'.data \in {"garbage", "null"}
            \/ lastRx'.payload \in {"undefined", "null"})
        => /\ lastRx'.verdict \in {"parse-error", "invalid-signature"}
           /\ UNCHANGED <<boot, secret, sockets, socket, tasks, sent,
                          createdTabs>>
     /\ Len(tasks') > Len(tasks) =>
          lastRx'.data = "object" /\ lastRx'.payload = "object"]_vars

\* A well-formed, signed command was dispatched right after a frame ended
\* in the listener's catch.
C9_Witness ==
  /\ lastRx.verdict = "dispatched"
  /\ lastRx.after = "parse-error"

\* C10: an authenticated command whose kind is no arm of the dispatcher
\* ends as an invalid message and changes nothing but the record of the
\* last frame; only a command of one of the arms starts a handler.
C10_UnknownKindDropped ==
  [][/\ (/\ lastRx' # lastRx
         /\ lastRx'.sig = "valid"
         /\ lastRx'.payload = "object"
         /\ lastRx'.cmd \notin Arms)
        => /\ lastRx'.verdict = "invalid-message"
           /\ UNCHANGED <<boot, secret, sockets, socket, tasks, sent,
                          createdTabs>>
     /\ Len(tasks') > Len(tasks) => lastRx'.cmd \in Arms]_vars

\* A command was dispatched right after one of an unknown kind was dropped.
C10_Witness ==
  /\ lastRx.verdict = "dispatched"
  /\ lastRx.after = "invalid-message"

\* The client of port p has no socket, or its socket is CLOSED.
Disconnected(p) == socket[p] = 0 \/ sockets[p][socket[p]] = "CLOSED"

C12_SendsWhenAnyOpen ==
  [][\A k \in 1..Len(tasks) :
       (/\ tasks[k].pc \notin {"not-open", "discarded", "threw"}
        /\ tasks'[k].pc \in {"not-open", "discarded", "threw"})
       => ~(\E p \in Ports : SocketIsOpen(p))]_vars

\* The offset requested by the command that frame i of sent answers.
SentOffset(i) == tasks[sent[i].task].req.offset

\* The window frame i of sent carries.
SentWindow(i) == sent[i].payload.content

\* C13: a tab-content Result for an offset within [0, L] carries a text
\* with offset + len(text) <= L, isTruncated exactly when
\* offset + len(text) < L, and totalLength = L.
C13_WindowInvariant ==
  \A i \in 1..Len(sent) :
    LET L == Len(document.innerText)
        offset == SentOffset(i)
        w == SentWindow(i)
    IN (/\ sent[i].payload.resource = "tab-content"
        /\ offset.type = "number"
        /\ offset.value \in 0..L)
       => /\ offset.value + Len(w.fullText) <= L
          /\ w.isTruncated = (offset.value + Len(w.fullText) < L)
          /\ w.totalLength = L

\* A window from the middle of a page has been sent, cut at the maximum.
C13_Witness ==
  \E i \in 1..Len(sent) :
    /\ SentOffset(i).type = "number"
    /\ SentOffset(i).value > 0
    /\ SentOffset(i).value < Len(document.innerText)
    /\ SentWindow(i).isTruncated
    /\ Len(SentWindow(i).fullText) = MAX_CONTENT_LENGTH

\* The first n frames of sent are one reading session: it starts at offset
\* 0 and each request after a truncated window asks for the offset plus the
\* length returned.
Session(n) ==
  /\ SentOffset(1) = Number(0)
  /\ \A i \in 1..(n - 1) :
       /\ SentWindow(i).isTruncated
       /\ SentOffset(i + 1) =
            Number(SentOffset(i).value + Len(SentWindow(i).fullText))

\* The texts of the first n frames of sent, one after the other.
RECURSIVE Concatenated(_)
Concatenated(n) ==
  IF n = 0 THEN <<>> ELSE Concatenated(n - 1) \o SentWindow(n).fullText

\* ceil(L / MAX_CONTENT_LENGTH), and one request for the empty page.
Requests(L) ==
  IF L = 0 THEN 1
  ELSE (L + MAX_CONTENT_LENGTH - 1) \div MAX_CONTENT_LENGTH

\* C14: in a reading session no window is longer than the maximum, the
\* last window ends within the page, the windows so far concatenate to the
\* page's text up to where the last one ends, a session still truncated has
\* made fewer than ceil(L / maximum) requests, and one that is not has made
\* exactly that many and has read the whole text.
C14_SessionCoversPage ==
  \A n \in 1..Len(sent) :
    LET L == Len(document.innerText)
        end == SentOffset(n).value + Len(SentWindow(n).fullText)
    IN Session(n)
       => /\ \A i \in 1..n : Len(SentWindow(i).fullText) <= MAX_CONTENT_LENGTH
          /\ end <= L
          /\ Concatenated(n) = SubSeq(document.innerText, 1, end)
          /\ SentWindow(n).isTruncated => n < Requests(L)
          /\ ~SentWindow(n).isTruncated
               => n = Requests(L) /\ Concatenated(n) = document.innerText

\* A page has been read to its end in more than one request.
C14_Witness ==
  \E n \in 2..Len(sent) :
    /\ Session(n)
    /\ ~SentWindow(n).isTruncated
    /\ Len(SentWindow(n).fullText) > 0

\* C15: a request with no offset or a negative one is answered with the
\* window at offset 0, and one with an offset beyond the text with the empty
\* window at L: no text, not truncated, totalLength L.
C15_OffsetClamped ==
  \A i \in 1..Len(sent) :
    LET text == document.innerText
        L == Len(text)
        offset == SentOffset(i)
        w == SentWindow(i)
        first == IF L > MAX_CONTENT_LENGTH THEN MAX_CONTENT_LENGTH ELSE L
    IN /\ (offset.type = "undefined" \/ offset.value < 0)
          => /\ w.fullText = SubSeq(text, 1, first)
             /\ w.isTruncated = (L > MAX_CONTENT_LENGTH)
             /\ w.totalLength = L
       /\ (offset.type = "number" /\ offset.value > L)
          => /\ w.fullText = <<>>
             /\ ~w.isTruncated
             /\ w.totalLength = L

\* A request with a negative offset and one beyond the end of a page that
\* has text were both answered.
C15_Witness ==
  /\ Len(document.innerText) > 0
  /\ \E i, j \in 1..Len(sent) :
       /\ SentOffset(i).type = "number"
       /\ SentOffset(i).value < 0
       /\ SentOffset(j).type = "number"
       /\ SentOffset(j).value > Len(document.innerText)

\* C16: a tab-content Result for an offset greater than 0 carries no links.
C16_LinksOnlyAtZero ==
  \A i \in 1..Len(sent) :
    (/\ sent[i].payload.resource = "tab-content"
     /\ SentOffset(i).type = "number"
     /\ SentOffset(i).value > 0)
    => SentWindow(i).links = <<>>

\* The frames of sent that answer handler k.
Answers(k) == {i \in 1..Len(sent) : sent[i].task = k}

\* The handler has called sendResourceToServer.
Answering(task) ==
  task.pc \in {"signing", "sent", "threw", "discarded", "not-open"}

\* C17: the handler of reorder-tabs with order t calls move(t[i], i) for
\* i = 0, 1, ... in this order, the next only when the one before has
\* settled, whether or not it failed; it answers only after the last move,
\* once, with the order t and the command's correlation id.
C17_ReorderBestEffort ==
  \A k \in 1..Len(tasks) :
    LET task == tasks[k]
        t == task.req.tabOrder
    IN task.req.cmd = "reorder-tabs"
       => /\ Len(task.calls) <= Len(t)
          /\ \A j \in 1..Len(task.calls) :
               task.calls[j] = Call("tabs.move", t[j], j - 1)
          /\ task.pc = "tabs.move" => Len(task.calls) = task.newIndex + 1
          /\ task.pc # "tabs.move"
               => Len(task.calls) = Len(t) /\ Answering(task)
          /\ Cardinality(Answers(k)) <= 1
          /\ task.pc = "sent" <=> Answers(k) # {}
          /\ \A i \in Answers(k) :
               /\ sent[i].payload.resource = "tabs-reordered"
               /\ sent[i].payload.tabOrder = t
               /\ sent[i].payload.correlationId = task.req.correlationId

\* A reorder-tabs command one of whose moves failed has been answered.
C17_Witness ==
  \E k \in 1..Len(tasks) :
    /\ tasks[k].req.cmd = "reorder-tabs"
    /\ tasks[k].errors > 0
    /\ Answers(k) # {}

\* C18: the handler of a find-highlight command whose search found no
\* match calls neither tabs.update nor find.highlightResults, and its
\* Result reports noOfResults = 0.
C18_NoMatchLeavesTab ==
  \A k \in 1..Len(tasks) :
    (/\ tasks[k].req.cmd = "find-highlight"
     /\ tasks[k].pc \notin {"find.find", "rejected"}
     /\ tasks[k].count = 0)
    => /\ tasks[k].calls = <<Call("find.find", tasks[k].req.tabId, 0)>>
       /\ Answering(tasks[k])
       /\ \A i \in Answers(k) :
            /\ sent[i].payload.resource = "find-highlight-result"
            /\ sent[i].payload.noOfResults = 0

\* A find-highlight command without matches has been answered.
C18_Witness ==
  \E k \in 1..Len(tasks) :
    /\ tasks[k].req.cmd = "find-highlight"
    /\ tasks[k].count = 0
    /\ Answers(k) # {}

\* C19: the handler of a find-highlight command with matches calls
\* find.highlightResults only when tabs.update has settled, and calls
\* sendResourceToServer only after find.highlightResults; its Result
\* reports the number of matches.
C19_ActivateThenHighlight ==
  \A k \in 1..Len(tasks) :
    LET task == tasks[k]
        find == Call("find.find", task.req.tabId, 0)
        update == Call("tabs.update", task.req.tabId, 0)
        highlight == Call("find.highlightResults", task.req.tabId, 0)
    IN (task.req.cmd = "find-highlight" /\ task.count > 0)
       => /\ task.pc \in {"tabs.update", "rejected"}
               => task.calls = <<find, update>>
          /\ task.pc \notin {"tabs.update", "rejected"}
               => task.calls = <<find, update, highlight>> /\ Answering(task)
          /\ \A i \in Answers(k) :
               /\ task.calls = <<find, update, highlight>>
               /\ sent[i].payload.noOfResults = task.count

\* A find-highlight command with matches has been answered.
C19_Witness ==
  \E k \in 1..Len(tasks) :
    /\ tasks[k].req.cmd = "find-highlight"
    /\ tasks[k].count > 0
    /\ Answers(k) # {}

\* C20: while a client's socket is open, a command is received and its
\* handler started whatever the handlers started before it are doing, and
\* a Result sent before the Result of an earlier command still carries the
\* correlation id of its own command.
C20_HandledIndependently ==
  /\ \A p \in Ports : \A s \in 1..MaxSockets :
       (Receiving(p, s) /\ Len(tasks) < MaxPair) => ENABLED PairMessage(p, s)
  /\ \A i, j \in 1..Len(sent) :
       (i < j /\ sent[i].task > sent[j].task)
       => /\ sent[i].payload.correlationId =
               tasks[sent[i].task].req.correlationId
          /\ sent[j].payload.correlationId =
               tasks[sent[j].task].req.correlationId

\* The tab list asked for second was sent while the tab of the open-tab
\* command received first was still being created.
C20_Witness ==
  /\ Len(tasks) = 2
  /\ tasks[1].req.cmd = "open-tab"
  /\ tasks[1].pc = "tabs.create"
  /\ tasks[2].req.cmd = "get-tab-list"
  /\ Answers(2) # {}

\* The 0-based indices of the tab list within [offset, offset + E).
TabWindow(reply) ==
  {i \in 0..(reply.totalTabs - 1) :
     /\ reply.offset <= Twice(i)
     /\ Twice(i) < reply.offset + effectiveLimit(reply.limit)}

\* C21: a reply of get-list-of-open-tabs lists exactly the tabs at the
\* indices within [offset, offset + E), at most the maximum, with the hint
\* exactly when the list has tabs at or after offset + E; the hinted offset
\* is one the tool accepts, and a caller who started at 0 and followed the
\* hints to a reply without one has seen every tab once, in order.
C21_TabListWindow ==
  tool.name = "get-list-of-open-tabs"
  => LET reply == tool.reply
     IN /\ Len(reply.tabs) = Cardinality(TabWindow(reply))
        /\ \A j \in 1..Len(reply.tabs) :
             reply.tabs[j] = tool.openTabs[ToInteger(reply.offset) + j]
        /\ Len(reply.tabs) <= MaxLimit
        /\ reply.hasMore <=>
             (\E i \in 0..(reply.totalTabs - 1) :
                Twice(i) >= reply.offset + effectiveLimit(reply.limit))
        /\ tool.following # "rejected"
        /\ (tool.following = "yes" /\ ~reply.hasMore)
             => tool.seen = tool.openTabs

\* C22: the caller of a call is completed at most once, and exactly when
\* its entry is no longer pending; a timeout removes the entry and completes
\* the caller with Timeout; a reply for an id with no pending entry is
\* dropped as unmatched and changes no call and no other entry.
C22_ResolvedOrTimedOutOnce ==
  [][/\ \A id \in 1..Len(gateway'.calls) :
          /\ Len(gateway'.calls[id]) <= 1
          /\ id \in gateway'.pending <=> gateway'.calls[id] = <<>>
     /\ gateway'.last = "timed-out"
          => \E id \in gateway.pending :
               /\ gateway'.pending = gateway.pending \ {id}
               /\ gateway'.calls = [gateway.calls EXCEPT ![id] = <<"Timeout">>]
     /\ gateway'.last = "unmatched"
          => /\ gateway'.calls = gateway.calls
             /\ gateway'.pending = gateway.pending]_vars

\* A reply that came after its call had timed out was dropped while
\* another call was pending.
C22_Witness ==
  /\ gateway.last = "unmatched"
  /\ gateway.pending # {}
  /\ \E id \in 1..Len(gateway.calls) : gateway.calls[id] = <<"Timeout">>

\* C23: when the endpoint goes from Open to Disconnected, every request
\* pending at that moment is completed with a connectivity error, once, and
\* no entry stays pending; the calls that were not pending are untouched.
C23_DisconnectRejectsPending ==
  [][(gateway.channel = "Open" /\ gateway'.channel = "Disconnected")
     => /\ gateway'.pending = {}
        /\ Len(gateway'.calls) = Len(gateway.calls)
        /\ \A id \in 1..Len(gateway.calls) :
             gateway'.calls[id] =
               IF id \in gateway.pending THEN <<"Disconnected">>
               ELSE gateway.calls[id]]_vars

\* Two pending requests were rejected when the endpoint dropped.
C23_Witness ==
  /\ gateway.last = "rejected-all"
  /\ \E i, j \in 1..Len(gateway.calls) :
       /\ i # j
       /\ gateway.calls[i] = <<"Disconnected">>
       /\ gateway.calls[j] = <<"Disconnected">>

\* C24: on each port at most one socket is not CLOSED, and it is the one
\* the client's socket variable holds; a socket is created only when the
\* client has no socket or its socket is CLOSED; and when a socket fails or
\* closes, the client's current socket is CLOSED or closing.
C24_OneLiveSocket ==
  [][\A p \in Ports :
       /\ \A s \in 1..Len(sockets'[p]) :
            sockets'[p][s] # "CLOSED" => s = socket'[p]
       /\ Len(sockets'[p]) > Len(sockets[p])
            => /\ Disconnected(p)
               /\ Len(sockets'[p]) = Len(sockets[p]) + 1
       /\ \A s \in 1..Len(sockets[p]) :
            (sockets[p][s] # "CLOSED" /\ sockets'[p][s] = "CLOSED")
            => sockets'[p][socket'[p]] \in {"CLOSED", "CLOSING"}]_vars

\* A client whose first socket failed is connecting on its second.
C24_Witness ==
  \E p \in Ports :
    /\ Len(sockets[p]) = 2
    /\ sockets[p][1] = "CLOSED"
    /\ sockets[p][2] = "CONNECTING"
    /\ socket[p] = 2

\* C25: the range get-tab-web-content reports lies within the document,
\* 0 <= offset and offset + len(text) <= totalLength, and the hint is given
\* exactly when the content is truncated or the offset is greater than 0.
C25_RangeWithinDocument ==
  (tool.name = "get-tab-web-content" /\ tool.calls > 0)
  => LET reply == tool.reply
     IN /\ reply.hint <=> (reply.isTruncated \/ reply.offset > 0)
        /\ reply.hint
             => /\ 0 <= reply.rangeFrom
                /\ reply.rangeTo <= reply.totalLength

\* C26: when bulk-download returns its summary, the results are one per
\* entry in the order of the entries, successful + failed is the number of
\* entries, and every tab it opened has been passed to closeTabs.
C26_BulkDownloadComplete ==
  (tool.name = "bulk-download" /\ tool.pc = "returned")
  => /\ Len(tool.results) = tool.downloads
     /\ \A j \in 1..Len(tool.results) : tool.results[j].entry = j
     /\ tool.successful + tool.failed = tool.downloads
     /\ tool.opened \subseteq tool.closeRequested

====
